---- MODULE Spec2Model ----
(***************************************************************************)
(* Crash dashboards of poc_land (src/analysis/biai_strm*.py).  Every       *)
(* dashboard is one Streamlit script: load_data() normalizes the CSV, the  *)
(* sidebar widgets give the filter values, the script filters df_raw and   *)
(* renders.  Each user interaction re-runs the whole script, so every      *)
(* action below is "one widget event + one full script run".  load_data()  *)
(* is behind st.cache_data: its body runs while the server has no entry for *)
(* it, and a run that gets None from it stops at the safety gate.           *)
(*                                                                         *)
(* Cells.  A numeric cell is [tag, val]: tag "num" (a number), "nan"       *)
(* (missing / NaN), "str" (raw text that is no number) or "none" (the      *)
(* column does not exist in this variant).  A text cell is a string, NA    *)
(* standing for a missing value.                                           *)
(***************************************************************************)
EXTENDS Integers, Sequences, FiniteSets, TLC

VARIABLES
    variant,          \* which dashboard script runs
    file,             \* the CSV file on disk, as it is now
    cache,            \* st.cache_data's entry for load_data()
    raw,              \* the rows pd.read_csv read when load_data's body ran
    event,            \* the interaction that caused the last script run
    rendered,         \* the last script run got past the safety gate
    df_raw,           \* load_data()'s result
    selected_sev,     \* multiselect "Severity"
    selected_roads,   \* multiselect "Road System"            (strm2)
    selected_days,    \* multiselect "Days of Week"           (strm2, viz2, viz5)
    hour_range,       \* slider "Hour of Day"
    search_street,    \* multiselect "Filter by Street Name"  (strm2)
    selected_street,  \* selectbox "Street-Level Deep Dive"   (viz2, viz5, viz6)
    selection,        \* labels of the points selected in the donut chart (viz6)
    df,               \* the filtered frame: df (strm2, viz2, viz5), df_filtered (viz6)
    final_df,         \* the frame KPIs, map and tables are drawn from
    day_counts,       \* "Weekly Distribution" table          (strm2)
    hour_counts,      \* "Crash Volume by Hour" table         (strm2)
    donut,            \* "Comprehensive Cost by Severity"     (viz6)
    risk_index,       \* top streets: top_streets (strm2), risk_index (viz2, viz5, viz6)
    map_df,           \* the rows handed to the map
    kpi_total,        \* metric "Total Incidents" / "Total Crashes"
    kpi_deaths,       \* metric "Total Fatalities" / the death counters
    kpi_cost,         \* metric "Economic Impact"             (viz6)
    fatality_rate,    \* metric "Fatality Rate"               (strm2)
    avg_cost,         \* "Average Cost/Incident"              (viz6)
    b_event,          \* second browser session: the interaction of its last run
    b_sev,            \* second session: multiselect "Severity"
    b_selection,      \* second session: points selected in its donut chart
    b_df,             \* second session: df_filtered
    b_final           \* second session: final_df

\* what one session of the dashboard shows
outputs == <<df, final_df, day_counts, hour_counts, donut, risk_index, map_df,
             kpi_total, kpi_deaths, kpi_cost, fatality_rate, avg_cost>>

\* the widgets of the session
widgets == <<selected_sev, selected_roads, selected_days, hour_range, search_street,
             selected_street, selection>>

\* the second session
session_b == <<b_event, b_sev, b_selection, b_df, b_final>>

vars == <<variant, file, cache, raw, event, rendered, df_raw, widgets, outputs, session_b>>

----------------------------------------------------------------------------
(* Bounds of the model *)

MaxRows == 2

----------------------------------------------------------------------------
(* Cells *)

NA == "<NA>"
Num(n) == [tag |-> "num", val |-> n]
NaN == [tag |-> "nan", val |-> 0]
Bad == [tag |-> "str", val |-> 0]
NoColumn == [tag |-> "none", val |-> 0]

\* Series.isna() on a numeric column: raw text that is no number is not missing
isna(x) == x.tag = "nan"

\* pd.to_numeric(col, errors='coerce')
to_numeric(x) == IF x.tag = "num" THEN x ELSE NaN

\* .fillna(0)
fillna0(x) == IF x = NaN THEN Num(0) ELSE x

----------------------------------------------------------------------------
(* The dashboards *)

Variants == {"strm2", "viz2", "viz5", "viz6"}

\* load_data ends with df.dropna(subset=['latitude','longitude'])
DropsCoordsInLoad(v) == v \in {"viz2", "viz5", "viz6"}
\* load_data coerces latitude, longitude and crash_speed_limit
CoercesNumerics(v) == v \in {"viz2", "viz5", "viz6"}
\* load_data has the line df.loc[df['crash_speed_limit'] < 0, 'crash_speed_limit'] = 0
ClampsSpeed(v) == v \in {"viz2", "viz5"}
\* load_data coerces 'Estimated Total Comprehensive Cost'
CoercesCost(v) == v \in {"viz5", "viz6"}
HasRoadWidget(v) == v = "strm2"
HasDayWidget(v) == v \in {"strm2", "viz2", "viz5"}
HasStreetMultiselect(v) == v = "strm2"
HasDrillDown(v) == v = "viz6"
\* the selectbox list leaves out NOT REPORTED / UNKNOWN streets
CleansStreetList(v) == v \in {"viz5", "viz6"}

----------------------------------------------------------------------------
(* Schema normalizer: load_data *)

day_list == <<"Monday", "Tuesday", "Wednesday", "Thursday", "Friday", "Saturday", "Sunday">>

\* pd.to_datetime(..., errors='coerce'): an unparseable timestamp becomes NaT
to_datetime(ts) == IF ts.ok THEN ts ELSE [ok |-> FALSE, wd |-> 0, hour |-> 0]

\* .dt.hour
dt_hour(t) == IF t.ok THEN Num(t.hour) ELSE NaN

\* .dt.day_name(): weekday 0 is Monday
dt_day_name(t) == IF t.ok THEN day_list[t.wd + 1] ELSE NA

\* df['crash_sev_id'].map(sev_map)
sev_map(c) ==
    IF c.tag # "num" THEN NA
    ELSE CASE c.val = 1 -> "Fatal"
           [] c.val = 2 -> "Serious Injury"
           [] c.val = 3 -> "Minor Injury"
           [] c.val = 4 -> "Possible Injury"
           [] c.val = 0 -> "No Injury"
           [] c.val = 5 -> "Unknown"
           [] OTHER -> NA

\* df['onsys_fl'].map({True: ..., False: ...})
road_map(f) ==
    CASE f = "True" -> "Highway/On-System"
      [] f = "False" -> "City Street/Off-System"
      [] OTHER -> NA

\* crash_speed_limit after load_data
clean_speed(v, x) ==
    IF ~CoercesNumerics(v) THEN x
    ELSE LET y == fillna0(to_numeric(x))
         IN IF ClampsSpeed(v) /\ y.val < 0 THEN Num(0) ELSE y

\* variation of map_size: the test written x >= 0
map_size_nonneg(x) == IF x.val >= 0 THEN x ELSE Num(5)

\* df['crash_speed_limit'].apply(lambda x: x if x > 0 else 5)
map_size(x) == IF x.val > 0 THEN x ELSE Num(5)

\* one row of the frame before the final dropna
derive(v, r, i) ==
    LET t == to_datetime(r.ts)
        speed == clean_speed(v, r.speed)
    IN [ID |-> i,
        HOUR |-> dt_hour(t),
        DAY_NAME |-> dt_day_name(t),
        Severity_Label |-> sev_map(r.sev),
        Road_Type |-> road_map(r.onsys),
        latitude |-> IF CoercesNumerics(v) THEN to_numeric(r.lat) ELSE r.lat,
        longitude |-> IF CoercesNumerics(v) THEN to_numeric(r.lon) ELSE r.lon,
        crash_speed_limit |-> speed,
        map_size |-> IF CoercesNumerics(v) THEN map_size(speed) ELSE NoColumn,
        cost |-> IF CoercesCost(v) THEN fillna0(to_numeric(r.cost)) ELSE r.cost,
        death_cnt |-> r.deaths,
        rpt_street_name |-> r.street]

\* df[mask]: the rows at the positions of `keep`, in frame order
RECURSIVE TakeFrom(_, _, _)
TakeFrom(D, keep, i) ==
    IF i > Len(D) THEN <<>>
    ELSE (IF i \in keep THEN <<D[i]>> ELSE <<>>) \o TakeFrom(D, keep, i + 1)

\* variation of Take: the kept rows collected back to front
RECURSIVE TakeBack(_, _, _)
TakeBack(D, keep, i) ==
    IF i > Len(D) THEN <<>>
    ELSE TakeBack(D, keep, i + 1) \o (IF i \in keep THEN <<D[i]>> ELSE <<>>)

Take_reversed(D, keep) == TakeBack(D, keep, 1)

Take(D, keep) == TakeFrom(D, keep, 1)

\* variation of dropna_latlon: subset=['latitude'] only
dropna_lat_only(D) == Take(D, {i \in 1..Len(D) : ~isna(D[i].latitude)})

\* .dropna(subset=['latitude','longitude']): how='any'
dropna_latlon(D) ==
    Take(D, {i \in 1..Len(D) : ~isna(D[i].latitude) /\ ~isna(D[i].longitude)})

load_data(v, rows) ==
    LET frame == [i \in 1..Len(rows) |-> derive(v, rows[i], i)]
    IN IF DropsCoordsInLoad(v) THEN dropna_latlon(frame) ELSE frame

----------------------------------------------------------------------------
(* Predicate composer: the FILTER LOGIC block of each script *)

\* Series.isin(values): NaN matches a NaN among the values
isin(x, S) == x \in S

\* variation of between: the upper end exclusive
between_exclusive(x, lo, hi) == x.tag = "num" /\ lo <= x.val /\ x.val < hi

\* Series.between(lo, hi): inclusive on both sides, NaN compares False
between(x, lo, hi) == x.tag = "num" /\ lo <= x.val /\ x.val <= hi

\* the boolean mask of the script's df[...] expression
FilterMask(v, D, sev, roads, days, hr) ==
    {i \in 1..Len(D) :
        /\ isin(D[i].Severity_Label, sev)
        /\ HasRoadWidget(v) => isin(D[i].Road_Type, roads)
        /\ HasDayWidget(v) => isin(D[i].DAY_NAME, days)
        /\ between(D[i].HOUR, hr[1], hr[2])}

\* variation of StreetSearch: the isin test applied to an empty selection too
StreetSearch_always(D, streets) ==
    Take(D, {i \in 1..Len(D) : D[i].rpt_street_name \in streets})

\* strm2: if search_street: df = df[df['rpt_street_name'].isin(search_street)]
StreetSearch(D, streets) ==
    IF streets # {}
    THEN Take(D, {i \in 1..Len(D) : isin(D[i].rpt_street_name, streets)})
    ELSE D

\* viz: if selected_street != "All Streets": df = df[df['rpt_street_name'] == selected_street]
StreetDeepDive(D, street) ==
    IF street # "All Streets"
    THEN Take(D, {i \in 1..Len(D) : D[i].rpt_street_name = street})
    ELSE D

Filter(v, D, sev, roads, days, hr, streets, street) ==
    IF HasStreetMultiselect(v)
    THEN StreetSearch(Take(D, FilterMask(v, D, sev, roads, days, hr)), streets)
    ELSE LET d1 == StreetDeepDive(D, street)
         IN Take(d1, FilterMask(v, d1, sev, roads, days, hr))

----------------------------------------------------------------------------
(* Aggregation engine *)

\* df[c]: one column of the frame
Column(D, c) == [i \in 1..Len(D) |-> D[i][c]]

\* Series.value_counts(): occurrences of each non-null value
value_counts(col) ==
    [x \in {col[i] : i \in 1..Len(col)} \ {NA} |->
        Cardinality({i \in 1..Len(col) : col[i] = x})]

\* .reindex(index): a label missing from the counts gets NaN (no fill_value)
reindex(counts, index) ==
    [k \in 1..Len(index) |->
        [DAY_NAME |-> index[k],
         count |-> IF index[k] \in DOMAIN counts THEN Num(counts[index[k]]) ELSE NaN]]

\* df['DAY_NAME'].value_counts().reindex(day_list).reset_index()
DayCounts(D) == reindex(value_counts(Column(D, "DAY_NAME")), day_list)

RECURSIVE SumCost(_, _)
SumCost(D, label) ==
    IF D = <<>> THEN 0
    ELSE (IF Head(D).Severity_Label = label /\ Head(D).cost.tag = "num"
          THEN Head(D).cost.val ELSE 0) + SumCost(Tail(D), label)

\* df_filtered.groupby('Severity_Label')[cost].sum(): one slice per non-null label
cost_sev(D) ==
    [l \in {D[i].Severity_Label : i \in 1..Len(D)} \ {NA} |-> SumCost(D, l)]

\* df.groupby('HOUR').size().reset_index(name='count'): one row per hour that
\* occurs, in hour order; rows without an hour are in no group
groupby_hour(D) ==
    LET hours == SelectSeq([h \in 1..24 |-> h - 1],
                           LAMBDA h : \E i \in 1..Len(D) : D[i].HOUR = Num(h))
    IN [k \in 1..Len(hours) |->
            [HOUR |-> hours[k],
             count |-> Cardinality({i \in 1..Len(D) : D[i].HOUR = Num(hours[k])})]]

----------------------------------------------------------------------------
(* KPI metrics *)

\* a displayed number: the fraction num/den, or NaN
Metric(n, d) == [tag |-> "num", num |-> n, den |-> d]
MetricNaN == [tag |-> "nan", num |-> 0, den |-> 1]

\* Series.sum() of a column of integers: 0 for an empty column
RECURSIVE sum(_)
sum(col) == IF col = <<>> THEN 0 ELSE Head(col) + sum(Tail(col))

\* Series.sum() / Series.mean() of a coerced numeric column skip NaN
cost_values(D) ==
    LET cells == SelectSeq(Column(D, "cost"), LAMBDA c : c.tag = "num")
    IN [i \in 1..Len(cells) |-> cells[i].val]

\* Series.mean(): NaN for an empty column
mean(col) == IF col = <<>> THEN MetricNaN ELSE Metric(sum(col), Len(col))

\* strm2: (df['death_cnt'].sum() / len(df) * 100) if len(df) > 0 else 0
FatalityRate(D) ==
    IF Len(D) > 0 THEN Metric(sum(Column(D, "death_cnt")) * 100, Len(D)) ELSE Metric(0, 1)

\* viz6: avg_cost = final_df['Estimated Total Comprehensive Cost'].mean()
AvgCost(D) == mean(cost_values(D))

----------------------------------------------------------------------------
(* Drill-down coordinator (viz6) *)

\* final_df = df_filtered[df_filtered['Severity_Label'] == selected_label]
Narrow(D, label) == Take(D, {i \in 1..Len(D) : D[i].Severity_Label = label})

\* variation of FinalView: the chart's selection never reaches final_df
FinalView_ignoresSelection(v, D, sel) == D

\* variation of FinalView: a label without records falls back to the whole view
FinalView_revalidates(v, D, sel) ==
    IF HasDrillDown(v) /\ sel # <<>> /\ Narrow(D, sel[1]) # <<>>
    THEN Narrow(D, sel[1]) ELSE D

\* final_df = df_filtered.copy(); narrowed when the chart reports selected points
FinalView(v, D, sel) ==
    IF HasDrillDown(v) /\ sel # <<>> THEN Narrow(D, sel[1]) ELSE D

\* variation of dataset_after: the filter applied to the stored frame in place
dataset_after_inplace(D, filtered) == filtered

\* df_filtered = df_raw.copy(); df_filtered = df_filtered[...]: the script filters
\* a copy and builds new frames, so the stored frame is after the run what it
\* was before
dataset_after(D, filtered) == D

\* variation of downstream: KPIs, map and table read the intermediate view
downstream_intermediate(filtered, final) == filtered

\* update_kpis(final_df), px.density_mapbox(final_df, ...), risk_df = final_df[...]:
\* what is drawn after the chart reads the frame the chart block left in final_df
downstream(filtered, final) == final

\* the slices a click can hit: a pie draws no slice for a total of 0
Clickable(D) == {l \in DOMAIN cost_sev(D) : cost_sev(D)[l] > 0}

\* st.plotly_chart(..., on_select="rerun") returns the chart's session value.  The
\* script gives the chart no key, so whether a chart redrawn from different data
\* is still the same widget is the framework's choice: the selection is either
\* kept or comes back empty.  A chart redrawn from the same data keeps it.
ChartValue(oldD, newD, sel) ==
    IF cost_sev(newD) = cost_sev(oldD) THEN {sel} ELSE {sel, <<>>}

----------------------------------------------------------------------------
(* Rendering *)

\* strm2: st.map(df[['latitude','longitude']].dropna()); viz: the frame itself
MapView(v, D) ==
    IF DropsCoordsInLoad(v) THEN D
    ELSE Take(D, {i \in 1..Len(D) : ~isna(D[i].latitude) /\ ~isna(D[i].longitude)})

----------------------------------------------------------------------------
(* Widget options *)

\* Series.unique()
unique(col) == {col[i] : i \in 1..Len(col)}

\* df_raw['Severity_Label'].unique().tolist()
SeverityOptions(D) == unique(Column(D, "Severity_Label"))

\* df_raw['Road_Type'].unique().tolist()
RoadOptions(D) == unique(Column(D, "Road_Type"))

AllDays == {day_list[k] : k \in 1..Len(day_list)}

\* str.contains("NOT REPORTED|UNKNOWN", case=False) on the street names of the model
NotReportable(s) == s \in {"NOT REPORTED", "Unknown Rd"}

\* the street list of the sidebar
StreetOptions(v, D) ==
    LET named == unique(Column(D, "rpt_street_name")) \ {NA}
    IN IF CleansStreetList(v) THEN {s \in named : ~NotReportable(s)} ELSE named

----------------------------------------------------------------------------
(* Street ranking: top_streets (strm2), risk_index (viz2, viz5, viz6) *)

\* .nlargest(10, ...), .head(10)
TopN == 10

\* the street names of the model in the order groupby sorts its keys
StreetsAZ ==
    <<"A ST", "B ST", "C ST", "D ST", "E ST", "F ST", "G ST", "H ST", "I ST", "J ST",
      "K ST", "L ST", "MAIN ST", "NOT REPORTED", "OAK AVE", "Unknown Rd">>

\* the script filters the frame with ~str.contains("NOT REPORTED|UNKNOWN", ...)
\* before it groups by street
ExcludesNonReportable(v) == v \in {"viz5", "viz6"}

\* df[~df['rpt_street_name'].str.contains(..., case=False, na=True)]: a missing
\* name counts as a match and goes too
street_df(D) ==
    Take(D, {i \in 1..Len(D) :
                D[i].rpt_street_name # NA /\ ~NotReportable(D[i].rpt_street_name)})

\* 'ID': 'count' of one group
StreetCount(D, s) == Cardinality({i \in 1..Len(D) : D[i].rpt_street_name = s})

\* variation of groupby_street: dropna=False, the rows without a street name
\* grouped under the missing name
groupby_street_keepna(D) ==
    LET keys == SelectSeq(StreetsAZ \o <<NA>>, LAMBDA s : StreetCount(D, s) > 0)
    IN [k \in 1..Len(keys) |->
            [rpt_street_name |-> keys[k], count |-> StreetCount(D, keys[k])]]

\* df.groupby('rpt_street_name').agg({'ID': 'count'}): one row per street name
\* in sorted key order; sort=True and dropna=True are groupby's defaults, so rows
\* without a street name are in no group
groupby_street(D) ==
    LET keys == SelectSeq(StreetsAZ, LAMBDA s : StreetCount(D, s) > 0)
    IN [k \in 1..Len(keys) |->
            [rpt_street_name |-> keys[k], count |-> StreetCount(D, keys[k])]]

\* Series.value_counts() before it sorts: one row per non-null value, in the
\* order the values first occur
value_counts_frame(col) ==
    LET firsts == SelectSeq([i \in 1..Len(col) |-> i],
                            LAMBDA i : col[i] # NA /\ \A j \in 1..(i - 1) : col[j] # col[i])
    IN [k \in 1..Len(firsts) |->
            [rpt_street_name |-> col[firsts[k]],
             count |-> value_counts(col)[col[firsts[k]]]]]

\* place of row i when the frame is sorted by count, largest first, rows with
\* equal counts staying in frame order
RankOf(G, i) ==
    1 + Cardinality({j \in 1..Len(G) :
                        \/ G[j].count > G[i].count
                        \/ G[j].count = G[i].count /\ j < i})

sort_values_desc(G) == [k \in 1..Len(G) |-> G[CHOOSE i \in 1..Len(G) : RankOf(G, i) = k]]

\* .head(n)
head(G, n) == SubSeq(G, 1, IF Len(G) < n THEN Len(G) ELSE n)

\* variation of nlargest: the first n rows of the frame as grouped
nlargest_unsorted(n, G) == head(G, n)

\* DataFrame.nlargest(n, column): keep='first'
nlargest(n, G) == head(sort_values_desc(G), n)

\* strm2: df['rpt_street_name'].value_counts().head(10); value_counts sorts by
\* count, largest first, and leaves equal counts in first-occurrence order
\* viz:   <frame>.groupby('rpt_street_name').agg(...).nlargest(10, 'Total Incidents')
RiskIndex(v, D) ==
    IF v = "strm2"
    THEN head(sort_values_desc(value_counts_frame(Column(D, "rpt_street_name"))), TopN)
    ELSE nlargest(TopN, groupby_street(IF ExcludesNonReportable(v) THEN street_df(D) ELSE D))

----------------------------------------------------------------------------
(* The file and the cache of load_data *)

\* no file at file_path
Absent == [exists |-> FALSE, columns |-> "none", rows |-> <<>>]
\* a CSV with every column the script reads
Csv(rows) == [exists |-> TRUE, columns |-> "all", rows |-> rows]
\* a CSV without the timestamp column, which load_data reads first
NoTimestamp(rows) == [exists |-> TRUE, columns |-> "no_timestamp", rows |-> rows]
\* a CSV without the death counters the KPI row sums
NoDeaths(rows) == [exists |-> TRUE, columns |-> "no_deaths", rows |-> rows]

\* strm2's load_data reads df['death_cnt'] for high_severity; the viz scripts
\* read the death counters only in the KPI row
ReadsDeathsInLoad(v) == v = "strm2"

\* the body of load_data(): None without a file, a KeyError out of df[...] on a
\* missing column, else the normalized frame
load_file(v, f) ==
    IF ~f.exists THEN [status |-> "None", frame |-> <<>>, columns |-> f.columns]
    ELSE IF f.columns = "no_timestamp" \/ (f.columns = "no_deaths" /\ ReadsDeathsInLoad(v))
    THEN [status |-> "KeyError", frame |-> <<>>, columns |-> f.columns]
    ELSE [status |-> "frame", frame |-> load_data(v, f.rows), columns |-> f.columns]

NoEntry == [status |-> "unset", frame |-> <<>>, columns |-> "none"]

\* @st.cache_data on a function without parameters: the entry is keyed by the
\* function alone, so the body runs only while there is no entry
st_cache_data(c, v, f) == IF c.status # "unset" THEN c ELSE load_file(v, f)

\* a returned value is stored, None included; an exception stores nothing
cache_after(c, res) == IF res.status = "KeyError" THEN c ELSE res

\* if df_raw is None: st.error(...); st.stop()
SafetyGate(res) == res.status = "None"

----------------------------------------------------------------------------
(* Inputs of the model *)

Ts(wd, hour) == [ok |-> TRUE, wd |-> wd, hour |-> hour]
Unparseable == [ok |-> FALSE, wd |-> 0, hour |-> 0]

RawRows ==
    { [ts |-> Ts(0, 8), sev |-> Num(1), onsys |-> "True", lat |-> Num(30), lon |-> Num(-97),
       speed |-> Num(30), cost |-> Num(10), deaths |-> 1, street |-> "MAIN ST"],
      [ts |-> Ts(0, 22), sev |-> Num(9), onsys |-> "False", lat |-> Num(30), lon |-> Num(-97),
       speed |-> Num(-5), cost |-> Num(2), deaths |-> 0, street |-> NA],
      [ts |-> Ts(1, 8), sev |-> Num(1), onsys |-> "False", lat |-> Num(30), lon |-> NaN,
       speed |-> Num(3), cost |-> Num(5), deaths |-> 1, street |-> "NOT REPORTED"],
      [ts |-> Unparseable, sev |-> Num(9), onsys |-> NA, lat |-> Num(30), lon |-> Num(-97),
       speed |-> Bad, cost |-> Bad, deaths |-> 0, street |-> NA],
      [ts |-> Ts(6, 23), sev |-> Num(2), onsys |-> "True", lat |-> Num(31), lon |-> Num(-98),
       speed |-> Num(3), cost |-> Num(7), deaths |-> 0, street |-> "Unknown Rd"] }

RawTables == UNION {[1..n -> RawRows] : n \in 0..MaxRows}

\* what the session can find at file_path
Files ==
    {Csv(t) : t \in RawTables} \cup {Absent}
        \cup {NoTimestamp(<<r>>) : r \in RawRows} \cup {NoDeaths(<<r>>) : r \in RawRows}

HourRanges == {<<0, 23>>, <<8, 22>>}

DaySets == {AllDays, {}, {"Monday"}}

\* the options the model's user adds to or removes from the strm2 multiselects
RoadPicks == {"Highway/On-System", NA}

StreetPicks == {"MAIN ST", "NOT REPORTED"}

----------------------------------------------------------------------------
(* The session *)

\* a metric the dashboard does not have
NotShown == [tag |-> "none", num |-> 0, den |-> 1]

\* a session before its first script run (but for df)
Fresh ==
    /\ cache = NoEntry
    /\ raw = <<>>
    /\ event = "init"
    /\ rendered = FALSE
    /\ df_raw = <<>>
    /\ selected_sev = {}
    /\ selected_roads = {}
    /\ selected_days = AllDays
    /\ hour_range = <<0, 23>>
    /\ search_street = {}
    /\ selected_street = "All Streets"
    /\ selection = <<>>
    /\ final_df = <<>>
    /\ day_counts = <<>>
    /\ hour_counts = <<>>
    /\ donut = <<>>
    /\ risk_index = <<>>
    /\ map_df = <<>>
    /\ kpi_total = 0
    /\ kpi_deaths = 0
    /\ kpi_cost = 0
    /\ fatality_rate = NotShown
    /\ avg_cost = NotShown
    /\ b_event = "init"
    /\ b_sev = {}
    /\ b_selection = <<>>
    /\ b_df = <<>>
    /\ b_final = <<>>

Init ==
    /\ variant \in Variants
    /\ file \in Files
    /\ df = <<>>
    /\ Fresh

\* what a script run of this session leaves alone
Keep == UNCHANGED <<file, raw, session_b>>

\* one run of the script past the safety gate, top to bottom, with load_data()'s
\* cache entry c and the widgets at the given values.  In a frame without the death counters the first
\* df['pedestrian_death_count'] of the KPI row raises KeyError: the run ends
\* there, after the filter, the chart block and the "Total Crashes" metric.
Run(ev, c, sev, roads, days, hr, streets, street, sel) ==
    LET D == c.frame
        filtered == Filter(variant, D, sev, roads, days, hr, streets, street)
        final == FinalView(variant, filtered, sel)
        shown == downstream(filtered, final)
        complete == c.columns = "all"
    IN /\ event' = ev
       /\ rendered' = TRUE
       /\ cache' = [c EXCEPT !.frame = dataset_after(D, filtered)]
       /\ df_raw' = D
       /\ selected_sev' = sev
       /\ selected_roads' = roads
       /\ selected_days' = days
       /\ hour_range' = hr
       /\ search_street' = streets
       /\ selected_street' = street
       /\ selection' = sel
       /\ df' = filtered
       /\ final_df' = final
       /\ day_counts' = IF variant = "strm2" THEN DayCounts(filtered) ELSE <<>>
       /\ hour_counts' = IF variant = "strm2" THEN groupby_hour(filtered) ELSE <<>>
       /\ donut' = IF HasDrillDown(variant) THEN cost_sev(filtered) ELSE <<>>
       /\ avg_cost' = IF HasDrillDown(variant) THEN AvgCost(final) ELSE NotShown
       /\ fatality_rate' = IF variant = "strm2" THEN FatalityRate(filtered) ELSE NotShown
       /\ kpi_total' = Len(shown)
       /\ kpi_deaths' = IF complete THEN sum(Column(shown, "death_cnt")) ELSE 0
       /\ kpi_cost' = IF complete /\ HasDrillDown(variant) THEN sum(cost_values(shown)) ELSE 0
       /\ map_df' = IF complete THEN MapView(variant, shown) ELSE <<>>
       /\ risk_index' = IF complete THEN RiskIndex(variant, shown) ELSE <<>>
       /\ UNCHANGED variant

\* a run of the script that ends before any widget or chart: load_data() raised,
\* or the safety gate called st.stop()
Halt(ev, res) ==
    /\ event' = ev
    /\ rendered' = FALSE
    /\ cache' = cache_after(cache, res)
    /\ UNCHANGED <<variant, file, raw, df_raw, widgets, outputs, session_b>>

\* a run of the script in a session without widget state: df_raw = load_data(),
\* the safety gate, then every widget at its default
FirstPass(ev) ==
    LET res == st_cache_data(cache, variant, file)
    IN IF res.status = "KeyError" \/ SafetyGate(res)
       THEN Halt(ev, res)
       ELSE /\ raw' = IF cache.status = "unset" THEN file.rows ELSE raw
            /\ Run(ev, res, SeverityOptions(res.frame), RoadOptions(res.frame),
                   AllDays, <<0, 23>>, {}, "All Streets", <<>>)
            /\ UNCHANGED <<file, session_b>>

\* a multiselect: the user adds or removes one option
Toggle(S, o) == IF o \in S THEN S \ {o} ELSE S \cup {o}

\* a run whose filter widgets changed: the donut may be redrawn from other data
RunFiltered(sev, roads, days, hr, streets, street) ==
    \E sel \in ChartValue(df, Filter(variant, cache.frame, sev, roads, days, hr, streets, street),
                          selection) :
        /\ Keep
        /\ Run("filter", cache, sev, roads, days, hr, streets, street, sel)

\* first run of the session
Start ==
    /\ event = "init"
    /\ FirstPass("start")

\* the user re-runs a page that stopped before its widgets: the script starts
\* from the top (re-running a rendered page shows the same run again)
Rerun ==
    /\ event # "init"
    /\ ~rendered
    /\ FirstPass("rerun")

SetSeverity ==
    /\ rendered
    /\ \E o \in SeverityOptions(df_raw) :
          RunFiltered(Toggle(selected_sev, o), selected_roads, selected_days, hour_range,
                         search_street, selected_street)

SetRoads ==
    /\ rendered
    /\ HasRoadWidget(variant)
    /\ \E o \in RoadOptions(df_raw) \cap RoadPicks :
          RunFiltered(selected_sev, Toggle(selected_roads, o), selected_days, hour_range,
                         search_street, selected_street)

SetDays ==
    /\ rendered
    /\ HasDayWidget(variant)
    /\ \E days \in DaySets :
          /\ days # selected_days
          /\ RunFiltered(selected_sev, selected_roads, days, hour_range,
                         search_street, selected_street)

SetHourRange ==
    /\ rendered
    /\ \E hr \in HourRanges :
          /\ hr # hour_range
          /\ RunFiltered(selected_sev, selected_roads, selected_days, hr,
                         search_street, selected_street)

SetStreets ==
    /\ rendered
    /\ HasStreetMultiselect(variant)
    /\ \E o \in StreetOptions(variant, df_raw) \cap StreetPicks :
          RunFiltered(selected_sev, selected_roads, selected_days, hour_range,
                      Toggle(search_street, o), selected_street)

SetStreet ==
    /\ rendered
    /\ ~HasStreetMultiselect(variant)
    /\ \E street \in StreetOptions(variant, df_raw) \cup {"All Streets"} :
          /\ street # selected_street
          /\ RunFiltered(selected_sev, selected_roads, selected_days, hour_range,
                         search_street, street)

\* the user clicks a slice of the donut: the script re-runs with that point selected
SelectSlice ==
    /\ rendered
    /\ HasDrillDown(variant)
    /\ \E label \in Clickable(df) :
          /\ selection # <<label>>
          /\ Keep
          /\ Run("select", cache, selected_sev, selected_roads, selected_days, hour_range,
                 search_street, selected_street, <<label>>)

\* the user empties the chart's selection in the chart itself
Deselect ==
    /\ rendered
    /\ HasDrillDown(variant)
    /\ selection # <<>>
    /\ Keep
    /\ Run("deselect", cache, selected_sev, selected_roads, selected_days, hour_range,
           search_street, selected_street, <<>>)

\* if st.button("Clear Drill-Down"): st.rerun()
\* the button exists only while points are selected; st.rerun() runs the script
\* again with the session's widget values as they are
ClearDrillDown ==
    /\ rendered
    /\ HasDrillDown(variant)
    /\ selection # <<>>
    /\ Keep
    /\ Run("clear", cache, selected_sev, selected_roads, selected_days, hour_range,
           search_street, selected_street, selection)

\* the file is written to file_path after the first run found none
FileAppears ==
    /\ event # "init"
    /\ file = Absent
    /\ file' \in {Csv(t) : t \in RawTables}
    /\ event' = "file"
    /\ UNCHANGED <<variant, cache, raw, rendered, df_raw, widgets, outputs, session_b>>

Next ==
    \/ Start
    \/ Rerun
    \/ FileAppears
    \/ SetSeverity
    \/ SetRoads
    \/ SetDays
    \/ SetHourRange
    \/ SetStreets
    \/ SetStreet
    \/ SelectSlice
    \/ Deselect
    \/ ClearDrillDown

Spec == Init /\ [][Next]_vars

----------------------------------------------------------------------------
(* Two browser sessions of the drill-down dashboard on one server: the cache  *)
(* of load_data is the server's, widget values and frames are each session's. *)
(* The first session is the session above; the second one uses the Severity   *)
(* multiselect and the donut and leaves its other widgets at their defaults.  *)

\* the files of the two-session runs
SharedTables == {t \in RawTables : Len(t) = 2}

InitShared ==
    /\ variant = "viz6"
    /\ file \in {Csv(t) : t \in SharedTables}
    /\ df = <<>>
    /\ Fresh

\* one run of the script in the second session, with cache entry c
BRun(ev, c, sev, sel) ==
    LET filtered == Filter(variant, c.frame, sev, {}, AllDays, <<0, 23>>, {}, "All Streets")
        final == FinalView(variant, filtered, sel)
    IN /\ b_event' = ev
       /\ cache' = [c EXCEPT !.frame = dataset_after(c.frame, filtered)]
       /\ b_sev' = sev
       /\ b_selection' = sel
       /\ b_df' = filtered
       /\ b_final' = final
       /\ UNCHANGED <<variant, file, event, rendered, df_raw, widgets, outputs>>

\* first run of the second session: load_data() runs its body only if the
\* first session has not filled the cache yet
BStart ==
    /\ b_event = "init"
    /\ LET res == st_cache_data(cache, variant, file)
       IN /\ raw' = IF cache.status = "unset" THEN file.rows ELSE raw
          /\ BRun("start", res, SeverityOptions(res.frame), <<>>)

BSetSeverity ==
    /\ b_event # "init"
    /\ \E o \in SeverityOptions(cache.frame) :
          LET sev == Toggle(b_sev, o)
              filtered == Filter(variant, cache.frame, sev, {}, AllDays, <<0, 23>>, {},
                                 "All Streets")
          IN \E sel \in ChartValue(b_df, filtered, b_selection) :
                /\ BRun("filter", cache, sev, sel)
                /\ UNCHANGED raw

BSelectSlice ==
    /\ b_event # "init"
    /\ \E label \in Clickable(b_df) :
          /\ b_selection # <<label>>
          /\ BRun("select", cache, b_sev, <<label>>)
          /\ UNCHANGED raw

BDeselect ==
    /\ b_event # "init"
    /\ b_selection # <<>>
    /\ BRun("deselect", cache, b_sev, <<>>)
    /\ UNCHANGED raw

NextShared ==
    \/ Start
    \/ SetSeverity
    \/ SelectSlice
    \/ Deselect
    \/ BStart
    \/ BSetSeverity
    \/ BSelectSlice
    \/ BDeselect

SpecShared == InitShared /\ [][NextShared]_vars

----------------------------------------------------------------------------
(* The street ranking on its own, over views of more than TopN streets *)

MaxGroups == 11

\* street names of a view: street order[1] counts[order[1]] times, then order[2], ...
RECURSIVE StreetRuns(_, _)
StreetRuns(order, counts) ==
    IF order = <<>> THEN <<>>
    ELSE [j \in 1..counts[Head(order)] |-> StreetsAZ[Head(order)]]
            \o StreetRuns(Tail(order), counts)

\* a view of n streets with one or two records each: a frame of the variant
\* with the given street names, row by row
ViewOf(v, names) ==
    LET r == CHOOSE x \in RawRows : x.street = "MAIN ST"
    IN [i \in 1..Len(names) |-> derive(v, [r EXCEPT !.street = names[i]], i)]

\* the orders in which a view meets its n streets: A to Z, or Z to A
RankOrders(n) == {[k \in 1..n |-> k], [k \in 1..n |-> n + 1 - k]}

\* one dashboard per ranking code: value_counts().head (strm2), groupby + nlargest
\* (viz2), the same behind the NOT REPORTED filter (viz6, as in viz5)
RankVariants == {"strm2", "viz2", "viz6"}

InitRank ==
    /\ variant \in RankVariants
    /\ file = Absent
    /\ \E n \in 0..MaxGroups : \E order \in RankOrders(n) : \E counts \in [1..n -> 1..2] :
          df = ViewOf(variant, StreetRuns(order, counts))
    /\ Fresh

\* the ranking block of the script, run on the view
Rank ==
    /\ event = "init"
    /\ event' = "rank"
    /\ risk_index' = RiskIndex(variant, df)
    /\ UNCHANGED <<variant, file, cache, raw, rendered, df_raw, widgets, session_b,
                   df, final_df, day_counts, hour_counts, donut, map_df,
                   kpi_total, kpi_deaths, kpi_cost, fatality_rate, avg_cost>>

NextRank == Rank

SpecRank == InitRank /\ [][NextRank]_vars

----------------------------------------------------------------------------
(* Properties.  The contract of the spec is restated here in its own words    *)
(* (Matches, Rows, IsSubsequence) and compared with what the scripts compute. *)

Ran == event # "init"

\* the FilterSpec of the session, read off the widgets the variant has
Matches(r) ==
    /\ r.Severity_Label \in selected_sev
    /\ HasRoadWidget(variant) => r.Road_Type \in selected_roads
    /\ HasDayWidget(variant) => r.DAY_NAME \in selected_days
    /\ r.HOUR.tag = "num"
    /\ r.HOUR.val \in hour_range[1]..hour_range[2]
    /\ (HasStreetMultiselect(variant) /\ search_street # {}) =>
            r.rpt_street_name \in search_street
    /\ (~HasStreetMultiselect(variant) /\ selected_street # "All Streets") =>
            r.rpt_street_name = selected_street

Rows(D) == {D[i] : i \in 1..Len(D)}

RECURSIVE IsSubsequence(_, _)
IsSubsequence(s, t) ==
    IF s = <<>> THEN TRUE
    ELSE IF t = <<>> THEN FALSE
    ELSE IF Head(s) = Head(t) THEN IsSubsequence(Tail(s), Tail(t))
    ELSE IsSubsequence(s, Tail(t))

\* C1: after a selection event carrying label L the final view is exactly the
\* records of the filtered view whose severity label is L, in the same order;
\* after the selection is emptied the final view is exactly the filtered view;
\* the filtered view is exactly the records of the dataset the FilterSpec matches.
C1_DrillDownExact ==
    (HasDrillDown(variant) /\ event \in {"select", "deselect"}) =>
        /\ df = SelectSeq(df_raw, Matches)
        /\ event = "select" =>
              /\ selection # <<>>
              /\ final_df = SelectSeq(df, LAMBDA r : r.Severity_Label = selection[1])
        /\ event = "deselect" => (selection = <<>> /\ final_df = df)

\* C1 witness: a click narrowed a view of two records to one of them
C1_Witness ==
    /\ HasDrillDown(variant)
    /\ event = "select"
    /\ Len(df) = 2
    /\ Len(final_df) = 1

\* C2: pressing the 'Clear Drill-Down' button leads to NoSelection, and the run
\* that follows it uses the un-narrowed intermediate view.
C2_ClearLeadsToNoSelection ==
    event = "clear" => (selection = <<>> /\ final_df = df)

C4_FilterIsConjunction ==
    Ran =>
        /\ df = SelectSeq(df_raw, Matches)
        /\ \A r \in Rows(df) : r.HOUR # NaN

\* C4 witness: with the full hour range [0,23] a record with a null hour was
\* left out while another record was kept
C4_Witness ==
    /\ event = "filter"
    /\ hour_range = <<0, 23>>
    /\ \E r \in Rows(df_raw) : r.HOUR = NaN /\ r.Severity_Label \in selected_sev
    /\ df # <<>>

\* C5: the filtered view is an order-preserving subsequence of the dataset: every
\* record comes from the dataset, none twice, in dataset order, and the view is
\* no longer than the dataset.
C5_FilterIsSubsequence ==
    Ran =>
        /\ IsSubsequence(df, df_raw)
        /\ Len(df) <= Len(df_raw)
        /\ \A i, j \in 1..Len(df) : i < j => df[i].ID < df[j].ID

\* C5 witness: a filter dropped the first record of the dataset and kept the
\* second, after a run that showed both in dataset order
C5_Witness ==
    /\ event = "filter"
    /\ Len(df_raw) = 2
    /\ df = <<df_raw[2]>>

\* C6: an empty severities selection selects no record; an empty streets
\* selection imposes no street restriction (the view is what the other
\* dimensions alone select).
C6_EmptyMultiselect ==
    Ran =>
        /\ selected_sev = {} => df = <<>>
        /\ (HasStreetMultiselect(variant) /\ search_street = {}) =>
              df = SelectSeq(df_raw, LAMBDA r :
                      /\ r.Severity_Label \in selected_sev
                      /\ r.Road_Type \in selected_roads
                      /\ r.DAY_NAME \in selected_days
                      /\ r.HOUR.tag = "num"
                      /\ r.HOUR.val \in hour_range[1]..hour_range[2])

\* C6 witness: the street multiselect is empty and records of several streets
\* are in view; taking the last severity out empties the view
C6_Witness ==
    /\ HasStreetMultiselect(variant)
    /\ event = "filter"
    /\ search_street = {}
    /\ selected_sev = {}
    /\ Len(df_raw) >= 2
    /\ df = <<>>

\* C7 as stated: load_data keeps one record per raw row, rows without latitude
\* or longitude included, and the KPIs count them.
C7_NormalizerKeepsEveryRow ==
    Ran => Len(df_raw) = Len(raw)

\* C7 as amended: in strm2 load_data keeps one record per raw row and the map
\* view drops the records without coordinates on demand; in viz2, viz5 and viz6
\* load_data itself drops every row whose latitude or longitude is missing or not
\* a number, so the dataset, the KPIs and the tables never count such rows.
C7_CoordinateDropPerVariant ==
    Ran =>
        LET ids == {r.ID : r \in Rows(df_raw)}
            located == {i \in 1..Len(raw) : raw[i].lat.tag = "num" /\ raw[i].lon.tag = "num"}
        IN /\ ~DropsCoordsInLoad(variant) =>
                /\ ids = 1..Len(raw)
                /\ Len(df_raw) = Len(raw)
                /\ kpi_total = Len(df)
                /\ map_df = SelectSeq(df, LAMBDA r : r.latitude # NaN /\ r.longitude # NaN)
           /\ DropsCoordsInLoad(variant) =>
                /\ ids = located
                /\ Len(df_raw) = Cardinality(located)
                /\ kpi_total <= Cardinality(located)
                /\ cache.columns = "all" => map_df = final_df

\* C7 witness: a viz dashboard loaded a file with a coordinate-less row and its
\* dataset is shorter than the file
C7_Witness ==
    /\ DropsCoordsInLoad(variant)
    /\ Ran
    /\ Len(df_raw) < Len(raw)
    /\ df_raw # <<>>

\* C8: after normalization crash_speed_limit is a number >= 0 in every record
\* (dashboards that sanitize the speed limit: viz2, viz5, viz6).
C8_SpeedNeverNegative ==
    (Ran /\ CoercesNumerics(variant)) =>
        \A r \in Rows(df_raw) :
            r.crash_speed_limit.tag = "num" /\ r.crash_speed_limit.val >= 0

\* C9 as stated: map_size >= 5 for every record, and map_size = speed limit
\* whenever the speed limit is > 0.
C9_MarkerAtLeastFive ==
    (Ran /\ CoercesNumerics(variant)) =>
        \A r \in Rows(df_raw) :
            /\ r.map_size.val >= 5
            /\ r.crash_speed_limit.val > 0 => r.map_size = r.crash_speed_limit

\* C9 as amended: map_size is a number > 0 for every record; it equals the speed
\* limit whenever the speed limit is > 0 (so it is below 5 for a speed limit
\* strictly between 0 and 5) and is 5 otherwise.
C9_MarkerPositive ==
    (Ran /\ CoercesNumerics(variant)) =>
        \A r \in Rows(df_raw) :
            /\ r.map_size.tag = "num"
            /\ r.map_size.val > 0
            /\ r.crash_speed_limit.val > 0 => r.map_size = r.crash_speed_limit
            /\ r.crash_speed_limit.val <= 0 => r.map_size = Num(5)

\* C9 witness: the dataset holds a record with speed limit 3 and marker size 3
\* and a record without a positive speed limit and marker size 5
C9_Witness ==
    /\ Ran
    /\ \E r \in Rows(df_raw) : r.crash_speed_limit = Num(3) /\ r.map_size = Num(3)
    /\ \E r \in Rows(df_raw) : r.crash_speed_limit.val <= 0 /\ r.map_size = Num(5)

\* C10: the day-of-week aggregation has exactly 7 groups in Monday..Sunday
\* order, each with the number of records of that weekday in the view, 0 (a
\* number) for a weekday without records.
C10_SevenDayCounts ==
    (Ran /\ variant = "strm2") =>
        /\ Len(day_counts) = 7
        /\ \A k \in 1..7 :
              /\ day_counts[k].DAY_NAME = day_list[k]
              /\ day_counts[k].count =
                    Num(Cardinality({i \in 1..Len(df) : df[i].DAY_NAME = day_list[k]}))

\* the load found no file, or the file lacks a column the script reads
SourceUnusable == cache.status = "None" \/ (file.exists /\ file.columns # "all")

\* C12: when the raw source is absent or lacks a required column, the load ends
\* in an error outcome and the session fails closed: no filter, aggregation or
\* rendering step is ever executed in it and no partial table is exposed.
C12_FailsClosed ==
    (event # "init" /\ SourceUnusable) =>
        /\ cache.status # "frame"
        /\ ~rendered
        /\ df = <<>>
        /\ final_df = <<>>
        /\ donut = <<>>
        /\ kpi_total = 0

\* C13: normalization is keyed by the source's content: in every script run the
\* normalized result in use is the one computed from the source as it is at
\* that run: a run over an unchanged source reuses the stored result, and no
\* run uses a result stored for another content of the source (a stored "file
\* absent" result after the file appeared included).
C13_CacheKeyedBySource ==
    (event \notin {"init", "file"} /\ cache.status # "unset") =>
        /\ cache = load_file(variant, file)
        /\ rendered = file.exists

\* a script run that reached the end of the script
Complete == rendered /\ cache.columns = "all"

\* C14: when filter and drill-down leave a final view of zero rows, every
\* displayed metric is defined and zero: record count 0, death and cost sums 0,
\* fatality rate 0, average cost per incident 0.
C14_EmptyViewZeroMetrics ==
    (Complete /\ final_df = <<>>) =>
        /\ kpi_total = 0
        /\ kpi_deaths = 0
        /\ kpi_cost = 0
        /\ variant = "strm2" => fatality_rate = Metric(0, 1)
        /\ HasDrillDown(variant) => (avg_cost.tag = "num" /\ avg_cost.num = 0)

\* the streets a ranking of the view can list
RankedStreets(v, D) ==
    {s \in {D[i].rpt_street_name : i \in 1..Len(D)} :
        s # NA /\ (ExcludesNonReportable(v) => ~NotReportable(s))}

Records(D, s) == Cardinality({i \in 1..Len(D) : D[i].rpt_street_name = s})

\* s comes before t: by where the street is first met in the view, or by name
FirstMet(D, s) == CHOOSE i \in 1..Len(D) :
                      D[i].rpt_street_name = s /\ \A j \in 1..(i - 1) : D[j].rpt_street_name # s
NamePlace(s) == CHOOSE k \in 1..Len(StreetsAZ) : StreetsAZ[k] = s
Precedes(byName, D, s, t) ==
    IF byName THEN NamePlace(s) < NamePlace(t) ELSE FirstMet(D, s) < FirstMet(D, t)

\* T is the top-N ranking of the streets of D by record count, ties in the
\* given order: min(N, streets) rows, one per street, counts right, largest
\* first, and no street left out that should come before a listed one
IsTopN(T, v, D, byName) ==
    LET streets == RankedStreets(v, D)
        listed == {T[k].rpt_street_name : k \in 1..Len(T)}
        Ahead(s, t) == \/ Records(D, s) > Records(D, t)
                       \/ Records(D, s) = Records(D, t) /\ Precedes(byName, D, s, t)
    IN /\ Len(T) = IF Cardinality(streets) < TopN THEN Cardinality(streets) ELSE TopN
       /\ listed \subseteq streets
       /\ Cardinality(listed) = Len(T)
       /\ \A k \in 1..Len(T) : T[k].count = Records(D, T[k].rpt_street_name)
       /\ \A i, j \in 1..Len(T) : i < j => Ahead(T[i].rpt_street_name, T[j].rpt_street_name)
       /\ \A s \in streets \ listed : \A k \in 1..Len(T) : Ahead(T[k].rpt_street_name, s)

WithLabel(D, l) == SelectSeq(D, LAMBDA r : r.Severity_Label = l)

\* C15: in every run of the drill-down dashboard the KPIs, the map and the
\* high-risk street table are computed from the final view of that run (the
\* records the FilterSpec matches, narrowed to the selected label when there is
\* a selection), never from the intermediate view or an earlier run; only the
\* donut, which offers the categories, is computed from the intermediate view.
C15_DownstreamFromFinalView ==
    (HasDrillDown(variant) /\ Complete) =>
        /\ df = SelectSeq(df_raw, Matches)
        /\ final_df = IF selection = <<>> THEN df ELSE WithLabel(df, selection[1])
        /\ kpi_total = Len(final_df)
        /\ kpi_deaths = sum(Column(final_df, "death_cnt"))
        /\ kpi_cost = sum(cost_values(final_df))
        /\ map_df = final_df
        /\ IsTopN(risk_index, variant, final_df, TRUE)
        /\ DOMAIN donut = {r.Severity_Label : r \in Rows(df)} \ {NA}
        /\ \A l \in DOMAIN donut : donut[l] = sum(cost_values(WithLabel(df, l)))

\* C15 witness: a selection narrowed an intermediate view of two labels; KPIs,
\* map and street table show the one selected record, the donut both labels
C15_Witness ==
    /\ HasDrillDown(variant)
    /\ Complete
    /\ selection # <<>>
    /\ Len(df) = 2
    /\ Cardinality(DOMAIN donut) = 2
    /\ kpi_total = 1
    /\ Len(map_df) = 1
    /\ Len(risk_index) = 1

\* the counts of an aggregation, added up
TotalCount(G) == sum([k \in 1..Len(G) |-> G[k].count])

\* C16 as stated: grouping a view by a dimension puts every record of the view
\* in exactly one group, the records with a null value in a group of their own,
\* so the counts of a count aggregation add up to the number of records in the
\* view (hours in strm2, streets in viz2, severity labels of the donut in viz6).
C16_GroupsCoverView ==
    Complete =>
        /\ variant = "strm2" => TotalCount(hour_counts) = Len(df)
        /\ variant = "viz2" => TotalCount(risk_index) = Len(df)
        /\ HasDrillDown(variant) =>
              DOMAIN donut = {r.Severity_Label : r \in Rows(df)}

\* C16 as amended: grouping a view by a dimension puts every record with a
\* non-null value of the dimension in exactly one group and the records with a
\* null value in no group: there is one group per non-null value, and the
\* counts of a count aggregation add up to the number of records whose value is
\* not null (which is every record for the hours of strm2, where the hour
\* filter has already dropped the null hours).
C16_GroupsSkipNulls ==
    Complete =>
        /\ variant = "strm2" =>
              /\ \A r \in Rows(df) : r.HOUR # NaN
              /\ {hour_counts[k].HOUR : k \in 1..Len(hour_counts)}
                    = {r.HOUR.val : r \in Rows(df)}
              /\ \A k \in 1..Len(hour_counts) :
                    hour_counts[k].count =
                        Cardinality({i \in 1..Len(df) : df[i].HOUR = Num(hour_counts[k].HOUR)})
              /\ TotalCount(hour_counts) = Len(df)
        /\ variant = "viz2" =>
              /\ {risk_index[k].rpt_street_name : k \in 1..Len(risk_index)}
                    = {r.rpt_street_name : r \in Rows(df)} \ {NA}
              /\ \A k \in 1..Len(risk_index) :
                    risk_index[k].count = Records(df, risk_index[k].rpt_street_name)
              /\ TotalCount(risk_index) = Len(df) - Records(df, NA)
        /\ HasDrillDown(variant) =>
              DOMAIN donut = {r.Severity_Label : r \in Rows(df)} \ {NA}

\* C16 witness: a view of viz2 holds a record without street name beside a
\* named one, and the street groups count one record less than the view
C16_Witness ==
    /\ variant = "viz2"
    /\ Complete
    /\ Len(df) = 2
    /\ Records(df, NA) = 1
    /\ TotalCount(risk_index) = 1

\* a street name that is null or matches NOT REPORTED / UNKNOWN, in the spec's words
NonReportable(s) == s = NA \/ s \in {"NOT REPORTED", "Unknown Rd"}

\* C17: no street-level aggregation result contains a group for a non-reportable
\* street (name null, or matching NOT REPORTED or UNKNOWN case-insensitively),
\* and every record with a reportable street name is counted in its street's
\* group.
C17_OnlyReportableStreets ==
    Complete =>
        /\ \A k \in 1..Len(risk_index) : ~NonReportable(risk_index[k].rpt_street_name)
        /\ \A r \in Rows(final_df) :
              ~NonReportable(r.rpt_street_name) =>
                  \E k \in 1..Len(risk_index) :
                      /\ risk_index[k].rpt_street_name = r.rpt_street_name
                      /\ risk_index[k].count = Records(final_df, r.rpt_street_name)

\* what the first and the second session have on their own
session_a == <<event, rendered, df_raw, widgets, outputs>>

\* the final view a session must show: the records of the dataset its own
\* FilterSpec matches, narrowed by its own selection
OwnView(D, sev, sel) ==
    LET view == SelectSeq(D, LAMBDA r : r.Severity_Label \in sev /\ r.HOUR # NaN)
    IN IF sel = <<>> THEN view ELSE WithLabel(view, sel[1])

\* C18: under any interleaving of the interactions of two sessions that share
\* one normalized dataset, the dataset is never modified, each session's final
\* view depends only on that session's own FilterSpec and selection, and a
\* step of one session changes neither the other session's final view nor its
\* selection state.
C18_SessionsIsolated ==
    [][/\ cache.status = "frame" => cache' = cache
       /\ cache'.status = "frame" => cache'.frame = load_data(variant, raw')
       /\ rendered' => final_df' = OwnView(cache'.frame, selected_sev', selection')
       /\ b_event' # "init" => b_final' = OwnView(cache'.frame, b_sev', b_selection')
       /\ session_a' # session_a => session_b' = session_b
       /\ session_b' # session_b => session_a' = session_a]_vars

\* C18 witness: on one dataset the two sessions hold different selections and
\* show different, non-empty final views
C18_Witness ==
    /\ rendered
    /\ b_event # "init"
    /\ selection # <<>>
    /\ b_selection # <<>>
    /\ selection # b_selection
    /\ final_df # <<>>
    /\ b_final # <<>>
    /\ final_df # b_final

====
